---- MODULE Spec2Model ----
(***************************************************************************)
(* Batch rename orchestrator of src/App.tsx (the App component, its        *)
(* useEffect cycle, processNextBatch and the start/stop/reset handlers).   *)
(*                                                                         *)
(* Strings are sequences of one-character strings.  A CJK ideograph of the *)
(* range u4e00-u9fa5 is written as the token "U4E2D", "U9996", ...         *)
(* React state (files, isProcessing) is updated by the handlers; the       *)
(* useEffect of lines 52-173 re-runs after every commit that changed one   *)
(* of its dependencies, which is the flag effectDue: React flushes the     *)
(* pending effect before it dispatches the next event or continuation.     *)
(* Two variables observe the run without influencing it: lastOp and the    *)
(* field stopped of an invocation.                                         *)
(***************************************************************************)
EXTENDS Integers, Sequences, FiniteSets, TLC

\* src/App.tsx:12 sets 50; scaled so that a queue of MaxFiles exceeds it.
CHUNK_SIZE == 2

\* Number of files ever enqueued (ids are 1..MaxFiles).
MaxFiles == 3
\* Number of processNextBatch invocations ever started.
MaxCycles == 2

VARIABLES
    files,              \* useState<ProcessedFile[]>, line 15
    isProcessing,       \* useState(false), line 16
    batchTick,          \* useState(0), line 17
    isRequestInFlight,  \* useRef(false), line 20
    filesRef,           \* useRef<ProcessedFile[]>, line 21
    calls,              \* the processNextBatch invocations that have not finished:
                        \*   chunkData, usedNames (their locals), pc (awaiting the
                        \*   oracle or the cooldown timer) and the observer field
                        \*   stopped (handleStopProcessing ran since they started)
    effectDue,          \* a dependency of the useEffect changed since it last ran
    nextId,             \* number of ids handed out so far
    lastOp,             \* observer: the handler or continuation that ran last
    client,             \* one invocation of analyzeFilenamesBatch on its own
                        \*   (ResultsTable.tsx lines 138-223)
    probe               \* argument and value of a pure function applied on its own

appVars == <<files, isProcessing, batchTick, isRequestInFlight, filesRef, calls, effectDue,
             nextId, lastOp>>

\* the variables the App does not touch
aux == <<client, probe>>

vars == <<files, isProcessing, batchTick, isRequestInFlight, filesRef, calls, effectDue,
          nextId, lastOp, client, probe>>

-----------------------------------------------------------------------------
(* Characters and strings *)

UpperChars == <<"A","B","C","D","E","F","G","H","I","J","K","L","M",
                "N","O","P","Q","R","S","T","U","V","W","X","Y","Z">>
LowerChars == <<"a","b","c","d","e","f","g","h","i","j","k","l","m",
                "n","o","p","q","r","s","t","u","v","w","x","y","z">>
DigitChars == <<"0","1","2","3","4","5","6","7","8","9">>
CJKChars   == {"U4E2D", "U9996", "U9875", "U641C", "U7D22"}

Range(s) == {s[i] : i \in DOMAIN s}

UpperSet == Range(UpperChars)
LowerSet == Range(LowerChars)
DigitSet == Range(DigitChars)

\* the lower-case letter of every upper-case letter
LowerOf ==
    [c \in UpperSet |-> LowerChars[CHOOSE i \in DOMAIN UpperChars : UpperChars[i] = c]]

\* String.prototype.toLowerCase, one character
LowerChar(c) == IF c \in UpperSet THEN LowerOf[c] ELSE c

\* String.prototype.toLowerCase
toLowerCase(s) == [i \in DOMAIN s |-> LowerChar(s[i])]

\* String.prototype.lastIndexOf('.'), 1-based; 0 stands for -1
lastIndexOfDot(s) ==
    IF \E i \in DOMAIN s : s[i] = "."
    THEN CHOOSE i \in DOMAIN s : s[i] = "." /\ \A j \in DOMAIN s : s[j] = "." => j <= i
    ELSE 0

\* decimal digits of a natural number, as `${counter}` prints it
RECURSIVE NatToString(_)
NatToString(n) ==
    IF n < 10 THEN <<DigitChars[n + 1]>>
    ELSE NatToString(n \div 10) \o <<DigitChars[(n % 10) + 1]>>

Unknown == <<"U","n","k","n","o","w","n">>

\* the character class [a-zA-Z0-9u4e00-u9fa5] and, with allowDots, the dot
IsKept(c, allowDots) ==
    \/ c \in UpperSet
    \/ c \in LowerSet
    \/ c \in DigitSet
    \/ c \in CJKChars
    \/ (allowDots /\ c = ".")

\* str.replace(regex, '_')
ReplaceForbidden(s, allowDots) ==
    [i \in DOMAIN s |-> IF IsKept(s[i], allowDots) THEN s[i] ELSE "_"]

\* safe.replace(/_+/g, '_')
RECURSIVE CollapseUnderscores(_)
CollapseUnderscores(s) ==
    IF Len(s) <= 1 THEN s
    ELSE IF s[1] = "_" /\ s[2] = "_" THEN CollapseUnderscores(Tail(s))
    ELSE <<s[1]>> \o CollapseUnderscores(Tail(s))

\* safe.replace(/^_|_$/g, ''): one underscore at the start, one at the end
TrimUnderscore(s) ==
    LET a == IF Len(s) >= 1 /\ s[1] = "_" THEN Tail(s) ELSE s
    IN  IF Len(a) >= 1 /\ a[Len(a)] = "_" THEN SubSeq(a, 1, Len(a) - 1) ELSE a

\* safe.replace(/^\.+|\.+$/g, ''): every dot at the start and at the end
RECURSIVE TrimDots(_)
TrimDots(s) ==
    IF Len(s) >= 1 /\ s[1] = "." THEN TrimDots(Tail(s))
    ELSE IF Len(s) >= 1 /\ s[Len(s)] = "." THEN TrimDots(SubSeq(s, 1, Len(s) - 1))
    ELSE s

\* sanitizePart, lines 40-50; the absent label (undefined) is the empty string
sanitizePart(str, allowDots) ==
    IF str = <<>> THEN Unknown
    ELSE LET r1 == ReplaceForbidden(str, allowDots)
             r2 == CollapseUnderscores(r1)
             r3 == TrimUnderscore(r2)
             r4 == IF allowDots THEN TrimDots(r3) ELSE r3
         IN  IF r4 = <<>> THEN Unknown ELSE r4


-----------------------------------------------------------------------------
(* Records of the queue *)

\* newName: null (line 30); a name that is set is never the empty string
Null == <<>>
\* metadata absent (types.ts line 7); set, it is <<englishName, chineseName, domainOrNote>>
NoMetadata == <<>>

\* file names the upload surface hands over
OriginalNames == { <<"a", ".", "p">> }

\* labels the oracle may answer with: <<english, chinese, domain>>
LabelTriples ==
    { <<<<"H">>, <<"U9996">>, <<"a">>>>,
      <<<<"h">>, <<"U9996">>, <<"a">>>> }

\* results.find(...) found no entry with the id
NoResult == <<>>

\* a new record, lines 26-32
NewRecord(id, name) ==
    [id |-> id, originalName |-> name, newName |-> Null,
     status |-> "pending", metadata |-> NoMetadata]

Ids(s) == {s[i].id : i \in DOMAIN s}

\* files.filter((f) => f.status === 'pending'), line 56
pendingFiles(fs) == SelectSeq(fs, LAMBDA f : f.status = "pending")

\* chunkOf without the slice: every Pending record is sent
chunkOf_NoSlice(fs) == pendingFiles(fs)

\* chunkOf slicing from the end: the newest Pending records first
chunkOf_Newest(fs) ==
    LET p == pendingFiles(fs)
    IN  SubSeq(p, IF Len(p) < CHUNK_SIZE THEN 1 ELSE Len(p) - CHUNK_SIZE + 1, Len(p))

\* pendingFiles.slice(0, CHUNK_SIZE), line 73
chunkOf(fs) ==
    LET p == pendingFiles(fs)
    IN  SubSeq(p, 1, IF Len(p) < CHUNK_SIZE THEN Len(p) ELSE CHUNK_SIZE)

\* chunkData, lines 77-82
chunkDataOf(chunk) ==
    [k \in DOMAIN chunk |->
        LET n == chunk[k].originalName
            lastDotIndex == lastIndexOfDot(n)
        IN  [id |-> chunk[k].id,
             nameWithoutExt |-> IF lastDotIndex # 0 THEN SubSeq(n, 1, lastDotIndex - 1) ELSE n,
             ext |-> IF lastDotIndex # 0 THEN SubSeq(n, lastDotIndex + 1, Len(n)) ELSE <<>>,
             originalName |-> n]]

\* itemsToSend, lines 84-87
itemsToSend(chunkData) ==
    [k \in DOMAIN chunkData |-> [i |-> chunkData[k].id, n |-> chunkData[k].nameWithoutExt]]

\* the setFiles updater of lines 90-96
MarkProcessing(prev, chunkIds) ==
    [k \in DOMAIN prev |->
        IF prev[k].id \in chunkIds THEN [prev[k] EXCEPT !.status = "processing"]
        ELSE IF prev[k].status = "processing" THEN [prev[k] EXCEPT !.status = "error"]
        ELSE prev[k]]

\* usedNames, lines 100-105
usedNamesOf(fs) ==
    {toLowerCase(fs[k].newName) :
        k \in {j \in DOMAIN fs : fs[j].newName # Null /\ fs[j].status = "completed"}}

\* the body of the while loop, lines 131-136: baseFinalName with _counter
\* before its last dot, or at its end when it has no dot
suffixedName(baseFinalName, counter) ==
    LET dotIndex == lastIndexOfDot(baseFinalName)
    IN  IF dotIndex # 0
        THEN SubSeq(baseFinalName, 1, dotIndex - 1) \o <<"_">> \o NatToString(counter)
               \o SubSeq(baseFinalName, dotIndex, Len(baseFinalName))
        ELSE baseFinalName \o <<"_">> \o NatToString(counter)

\* the while loop of lines 128-138
RECURSIVE uniqueNameFrom(_, _, _, _)
uniqueNameFrom(uniqueName, baseFinalName, counter, usedNames) ==
    IF toLowerCase(uniqueName) \in usedNames
    THEN uniqueNameFrom(suffixedName(baseFinalName, counter), baseFinalName, counter + 1,
                        usedNames)
    ELSE uniqueName

\* uniqueNameOf with the counter starting at 2
uniqueNameOf_FromTwo(baseFinalName, usedNames) ==
    uniqueNameFrom(baseFinalName, baseFinalName, 2, usedNames)

\* lines 128-129 and the loop
uniqueNameOf(baseFinalName, usedNames) ==
    uniqueNameFrom(baseFinalName, baseFinalName, 1, usedNames)

\* the resolver, lines 128-138: the name chosen and usedNames after
\* usedNames.add(uniqueName.toLowerCase())
resolveName(baseFinalName, usedNames) ==
    LET uniqueName == uniqueNameOf(baseFinalName, usedNames)
    IN  [name |-> uniqueName, used |-> usedNames \cup {toLowerCase(uniqueName)}]

\* baseFinalName, lines 119-126
baseFinalNameOf(res, ext) ==
    LET originalExt == IF ext # <<>> THEN <<".">> \o ext ELSE <<>>
    IN  sanitizePart(res[1], FALSE) \o <<"-", "-">> \o sanitizePart(res[2], FALSE)
          \o <<"-", "-">> \o sanitizePart(res[3], TRUE) \o originalExt

\* pData?.ext, line 119-120
extOf(chunkData, id) ==
    LET ks == {k \in DOMAIN chunkData : chunkData[k].id = id}
    IN  IF ks = {} THEN <<>> ELSE chunkData[CHOOSE k \in ks : \A j \in ks : k <= j].ext

\* MergeRecord naming the record without looking at usedNames
MergeRecord_IgnoreRegistry(file, chunkData, res, usedNames) ==
    IF res = NoResult THEN [file EXCEPT !.status = "error"]
    ELSE [file EXCEPT !.status = "completed",
                      !.newName = uniqueNameOf(baseFinalNameOf(res, extOf(chunkData, file.id)), {}),
                      !.metadata = <<sanitizePart(res[1], FALSE), sanitizePart(res[2], FALSE),
                                     sanitizePart(res[3], TRUE)>>]

\* one record of the merge, lines 112-150
MergeRecord(file, chunkData, res, usedNames) ==
    IF res = NoResult THEN [file EXCEPT !.status = "error"]
    ELSE [file EXCEPT !.status = "completed",
                      !.newName = uniqueNameOf(baseFinalNameOf(res, extOf(chunkData, file.id)), usedNames),
                      !.metadata = <<sanitizePart(res[1], FALSE), sanitizePart(res[2], FALSE),
                                     sanitizePart(res[3], TRUE)>>]

\* MergeFrom giving up at the first chunk record without an entry: the records
\* after it are left as they are
RECURSIVE MergeFrom_StopAtMissing(_, _, _, _)
MergeFrom_StopAtMissing(prev, chunkData, results, usedNames) ==
    IF prev = <<>> THEN [out |-> <<>>, used |-> usedNames]
    ELSE LET file == Head(prev)
             inChunk == file.id \in Ids(chunkData)
         IN  IF inChunk /\ results[file.id] = NoResult
             THEN [out |-> <<[file EXCEPT !.status = "error"]>> \o Tail(prev), used |-> usedNames]
             ELSE LET new == IF inChunk
                             THEN MergeRecord(file, chunkData, results[file.id], usedNames)
                             ELSE file
                      used1 == IF inChunk THEN usedNames \cup {toLowerCase(new.newName)}
                               ELSE usedNames
                      rest == MergeFrom_StopAtMissing(Tail(prev), chunkData, results, used1)
                  IN  [out |-> <<new>> \o rest.out, used |-> rest.used]

\* the setFiles updater of lines 110-152: prev.map in queue order, usedNames
\* growing as it goes; the value is [out |-> new files, used |-> usedNames after]
RECURSIVE MergeFrom(_, _, _, _)
MergeFrom(prev, chunkData, results, usedNames) ==
    IF prev = <<>> THEN [out |-> <<>>, used |-> usedNames]
    ELSE LET file == Head(prev)
             inChunk == file.id \in Ids(chunkData)
             new == IF inChunk THEN MergeRecord(file, chunkData, results[file.id], usedNames)
                    ELSE file
             used1 == IF inChunk /\ results[file.id] # NoResult
                      THEN usedNames \cup {toLowerCase(new.newName)} ELSE usedNames
             rest == MergeFrom(Tail(prev), chunkData, results, used1)
         IN  [out |-> <<new>> \o rest.out, used |-> rest.used]

\* MarkChunkError putting the records of a failed chunk back to Pending
MarkChunkError_Requeue(prev, chunkIds) ==
    [k \in DOMAIN prev |->
        IF prev[k].id \in chunkIds THEN [prev[k] EXCEPT !.status = "pending"] ELSE prev[k]]

\* the setFiles updater of the catch, lines 156-158
MarkChunkError(prev, chunkIds) ==
    [k \in DOMAIN prev |->
        IF prev[k].id \in chunkIds THEN [prev[k] EXCEPT !.status = "error"] ELSE prev[k]]

\* RevertProcessing that also re-queues Error records
RevertProcessing_AlsoError(prev) ==
    [k \in DOMAIN prev |->
        IF prev[k].status \in {"processing", "error"}
        THEN [prev[k] EXCEPT !.status = "pending"] ELSE prev[k]]

\* the setFiles updater of handleStopProcessing, lines 182-185
RevertProcessing(prev) ==
    [k \in DOMAIN prev |->
        IF prev[k].status = "processing" THEN [prev[k] EXCEPT !.status = "pending"] ELSE prev[k]]

\* ZombiesToError re-queueing the stuck records instead
ZombiesToError_Requeue(prev) ==
    [k \in DOMAIN prev |->
        IF prev[k].status = "processing" THEN [prev[k] EXCEPT !.status = "pending"] ELSE prev[k]]

\* ZombiesToError removing the stuck records from the queue
ZombiesToError_Drop(prev) == SelectSeq(prev, LAMBDA f : f.status # "processing")

\* the setFiles updater of the zombie check, line 62
ZombiesToError(prev) ==
    [k \in DOMAIN prev |->
        IF prev[k].status = "processing" THEN [prev[k] EXCEPT !.status = "error"] ELSE prev[k]]

\* completedCount, line 223
completedCount(fs) ==
    Cardinality({k \in DOMAIN fs : fs[k].status \in {"completed", "error"}})

\* remove element i of a sequence
RemoveAt(s, i) == SubSeq(s, 1, i - 1) \o SubSeq(s, i + 1, Len(s))

-----------------------------------------------------------------------------
(* The state machine *)

\* no client invocation and no function application on its own
NoClient == [pc |-> "idle"]
NoProbe == [fn |-> "none"]

\* the App after its first render
AppInit ==
    /\ files = <<>>
    /\ isProcessing = FALSE
    /\ batchTick = 0
    /\ isRequestInFlight = FALSE
    /\ filesRef = <<>>
    /\ calls = <<>>
    /\ effectDue = FALSE
    /\ nextId = 0
    /\ lastOp = "init"

Init ==
    /\ AppInit
    /\ client = NoClient
    /\ probe = NoProbe

\* the File[] of one drop or selection
Uploads == UNION {[1..n -> OriginalNames] : n \in 1..MaxFiles}

\* handleFilesSelected, lines 25-34; FileUpload is disabled while isProcessing
\* (lines 255, 274, 301, 312)
handleFilesSelected(newFiles) ==
    /\ ~effectDue
    /\ UNCHANGED aux
    /\ ~isProcessing
    /\ nextId + Len(newFiles) <= MaxFiles
    /\ files' = files \o [k \in DOMAIN newFiles |-> NewRecord(nextId + k, newFiles[k])]
    /\ nextId' = nextId + Len(newFiles)
    /\ effectDue' = TRUE
    /\ lastOp' = "enqueue"
    /\ UNCHANGED <<isProcessing, batchTick, isRequestInFlight, filesRef, calls>>

\* handleDeleteFile, lines 36-38; the button of a row of ResultsTable
handleDeleteFile(id) ==
    /\ ~effectDue
    /\ UNCHANGED aux
    /\ id \in Ids(files)
    /\ files' = SelectSeq(files, LAMBDA f : f.id # id)
    /\ effectDue' = TRUE
    /\ lastOp' = "delete"
    /\ UNCHANGED <<isProcessing, batchTick, isRequestInFlight, filesRef, calls, nextId>>

\* handleStartProcessing, lines 175-177; the button is shown when
\* !isProcessing && completed < total (ProcessingStatus.tsx lines 22, 44)
handleStartProcessing ==
    /\ ~effectDue
    /\ UNCHANGED aux
    /\ Len(files) > 0
    /\ ~isProcessing
    /\ completedCount(files) < Len(files)
    /\ isProcessing' = TRUE
    /\ effectDue' = TRUE
    /\ lastOp' = "start"
    /\ UNCHANGED <<files, batchTick, isRequestInFlight, filesRef, calls, nextId>>

\* handleStopProcessing, lines 179-187; the button is shown when isProcessing
\* (ProcessingStatus.tsx lines 22, 52)
handleStopProcessing ==
    /\ ~effectDue
    /\ UNCHANGED aux
    /\ Len(files) > 0
    /\ isProcessing
    /\ isProcessing' = FALSE
    /\ files' = RevertProcessing(files)
    /\ isRequestInFlight' = FALSE
    /\ effectDue' = TRUE
    /\ calls' = [c \in DOMAIN calls |-> [calls[c] EXCEPT !.stopped = TRUE]]
    /\ lastOp' = "stop"
    /\ UNCHANGED <<batchTick, filesRef, nextId>>

\* handleRestart clearing the queue whatever window.confirm answers
handleRestart_IgnoreAnswer(confirm) ==
    /\ ~effectDue
    /\ UNCHANGED aux
    /\ Len(files) > 0
    /\ ~isProcessing
    /\ isProcessing' = FALSE
    /\ files' = <<>>
    /\ isRequestInFlight' = FALSE
    /\ effectDue' = TRUE
    /\ lastOp' = IF confirm THEN "reset" ELSE "resetDeclined"
    /\ UNCHANGED <<batchTick, filesRef, calls, nextId>>

\* handleRestart, lines 189-196; the button is shown when !isProcessing
\* (ProcessingStatus.tsx lines 22, 36); confirm is the answer of window.confirm
handleRestart(confirm) ==
    /\ ~effectDue
    /\ UNCHANGED aux
    /\ Len(files) > 0
    /\ ~isProcessing
    /\ IF confirm
       THEN /\ isProcessing' = FALSE
            /\ files' = <<>>
            /\ isRequestInFlight' = FALSE
            /\ effectDue' = TRUE
            /\ lastOp' = "reset"
            /\ UNCHANGED <<batchTick, filesRef, calls, nextId>>
       ELSE /\ lastOp' = "resetDeclined"
            /\ UNCHANGED <<files, isProcessing, batchTick, isRequestInFlight, filesRef,
                           calls, effectDue, nextId>>

\* the effects of lines 23 and 52-173, run after a commit that changed a
\* dependency; processNextBatch runs up to its await (line 108)
cycleCheck ==
    /\ effectDue
    /\ UNCHANGED aux
    /\ filesRef' = files
    /\ UNCHANGED <<batchTick, nextId>>
    /\ IF ~isProcessing \/ isRequestInFlight
       THEN /\ effectDue' = FALSE
            /\ lastOp' = "checkReturn"
            /\ UNCHANGED <<files, isProcessing, isRequestInFlight, calls>>
       ELSE IF pendingFiles(files) = <<>>
       THEN IF \E k \in DOMAIN files : files[k].status = "processing"
            THEN /\ files' = ZombiesToError(files)
                 /\ effectDue' = TRUE
                 /\ lastOp' = "zombie"
                 /\ UNCHANGED <<isProcessing, isRequestInFlight, calls>>
            ELSE /\ isProcessing' = FALSE
                 /\ effectDue' = TRUE
                 /\ lastOp' = "complete"
                 /\ UNCHANGED <<files, isRequestInFlight, calls>>
       ELSE /\ batchTick + Len(calls) < MaxCycles
            /\ isRequestInFlight' = TRUE
            /\ LET chunk == chunkOf(files)
                   chunkData == chunkDataOf(chunk)
               IN  /\ files' = MarkProcessing(files, Ids(chunk))
                   /\ calls' = Append(calls, [chunkData |-> chunkData,
                                              usedNames |-> usedNamesOf(filesRef'),
                                              pc |-> "await",
                                              stopped |-> FALSE])
            /\ effectDue' = TRUE
            /\ lastOp' = "cycleStart"
            /\ UNCHANGED isProcessing

\* an invocation in its finally block, waiting for the timer of line 164: its
\* locals chunkData and usedNames are not read again
Cooling == [chunkData |-> <<>>, usedNames |-> {}, pc |-> "cooldown", stopped |-> FALSE]

\* answers of analyzeFilenamesBatch to a chunk: per id, the first entry with
\* that id (results.find, line 114) or none
ResultsFor(chunkData) == [Ids(chunkData) -> LabelTriples \cup {NoResult}]

\* analyzeFilenamesBatch resolved: the try of lines 108-152, then the finally
\* up to its await (line 164)
oracleSuccess(c, results) ==
    /\ ~effectDue
    /\ UNCHANGED aux
    /\ calls[c].pc = "await"
    /\ LET m == MergeFrom(files, calls[c].chunkData, results, calls[c].usedNames)
       IN  /\ files' = m.out
           /\ calls' = [calls EXCEPT ![c] = Cooling]
    /\ effectDue' = TRUE
    /\ lastOp' = "success"
    /\ UNCHANGED <<isProcessing, batchTick, isRequestInFlight, filesRef, nextId>>

\* analyzeFilenamesBatch rejected: the catch of lines 154-158, then the finally
\* up to its await (line 164)
oracleFailure(c) ==
    /\ ~effectDue
    /\ UNCHANGED aux
    /\ calls[c].pc = "await"
    /\ files' = MarkChunkError(files, Ids(calls[c].chunkData))
    /\ calls' = [calls EXCEPT ![c] = Cooling]
    /\ effectDue' = TRUE
    /\ lastOp' = "failure"
    /\ UNCHANGED <<isProcessing, batchTick, isRequestInFlight, filesRef, nextId>>

\* cooldownExpiry without setBatchTick: the guard is released and nothing
\* re-runs the effect
cooldownExpiry_NoTick(c) ==
    /\ ~effectDue
    /\ UNCHANGED aux
    /\ calls[c].pc = "cooldown"
    /\ isRequestInFlight' = FALSE
    /\ calls' = RemoveAt(calls, c)
    /\ lastOp' = "cooldownExpiry"
    /\ UNCHANGED <<files, isProcessing, batchTick, filesRef, nextId, effectDue>>

\* the timer of line 164 fired: lines 166-167
cooldownExpiry(c) ==
    /\ ~effectDue
    /\ UNCHANGED aux
    /\ calls[c].pc = "cooldown"
    /\ isRequestInFlight' = FALSE
    /\ batchTick' = batchTick + 1
    /\ calls' = RemoveAt(calls, c)
    /\ effectDue' = TRUE
    /\ lastOp' = "cooldownExpiry"
    /\ UNCHANGED <<files, isProcessing, filesRef, nextId>>

Next ==
    \/ \E newFiles \in Uploads : handleFilesSelected(newFiles)
    \/ \E id \in 1..MaxFiles : handleDeleteFile(id)
    \/ handleStartProcessing
    \/ handleStopProcessing
    \/ \E confirm \in BOOLEAN : handleRestart(confirm)
    \/ cycleCheck
    \/ \E c \in DOMAIN calls : \E results \in ResultsFor(calls[c].chunkData) :
          oracleSuccess(c, results)
    \/ \E c \in DOMAIN calls : oracleFailure(c)
    \/ \E c \in DOMAIN calls : cooldownExpiry(c)

Spec == Init /\ [][Next]_vars

\* One run left alone: the user fills the queue and presses start, and takes
\* no action from then on (no cycle has started while the user acts).
UserPresent == ~isProcessing /\ batchTick = 0 /\ calls = <<>>

OracleReturns ==
    \E c \in DOMAIN calls :
        \/ \E results \in ResultsFor(calls[c].chunkData) : oracleSuccess(c, results)
        \/ oracleFailure(c)

TimerFires == \E c \in DOMAIN calls : cooldownExpiry(c)

NextLive ==
    \/ UserPresent /\ \E newFiles \in Uploads : handleFilesSelected(newFiles)
    \/ UserPresent /\ \E id \in 1..MaxFiles : handleDeleteFile(id)
    \/ UserPresent /\ \E confirm \in BOOLEAN : handleRestart(confirm)
    \/ UserPresent /\ handleStartProcessing
    \/ cycleCheck
    \/ OracleReturns
    \/ TimerFires

\* React runs the pending effect; every oracle call returns or fails (the
\* client's retries are bounded, ResultsTable.tsx lines 171-221); every
\* cooldown timer fires.
SpecLive ==
    /\ Init /\ [][NextLive]_vars
    /\ WF_vars(cycleCheck) /\ WF_vars(OracleReturns) /\ WF_vars(TimerFires)

-----------------------------------------------------------------------------
(* analyzeFilenamesBatch on its own (ResultsTable.tsx lines 138-223) *)

\* What generateContent (or JSON.parse) can throw, by what the catch block
\* looks at: the message and the status of the error.
ErrorKinds == {"message429", "status429", "message503", "status503", "other"}

isRateLimit(error) == error \in {"message429", "status429"}
isServerBusy(error) == error \in {"message503", "status503"}

\* What a response can carry: no text, or text that parses.
ResponseKinds == {"noText", "json"}

\* const waitTime = 3000 * (4 - retries)
waitTime(retries) == 3000 * (4 - retries)

\* let retries = 3; the loop guard retries >= 0 holds and the request is sent
clientCall ==
    /\ client.pc = "idle"
    /\ client' = [pc |-> "request", retries |-> 3, waits |-> <<>>, errors |-> <<>>,
                  result |-> "none"]
    /\ UNCHANGED <<appVars, probe>>

\* the try block runs to one of its return statements
requestSucceeds(response) ==
    /\ client.pc = "request"
    /\ client' = [client EXCEPT !.pc = "returned",
                                !.result = IF response = "noText" THEN "empty"
                                                                  ELSE "mapped"]
    /\ UNCHANGED <<appVars, probe>>

\* the catch block with the retry test weakened to retries >= 0
requestFails_RetryAtZero(error) ==
    /\ client.pc = "request"
    /\ IF (isRateLimit(error) \/ isServerBusy(error)) /\ client.retries >= 0
       THEN client' = [client EXCEPT !.pc = "sleep",
                                     !.waits = Append(@, waitTime(client.retries)),
                                     !.errors = Append(@, error)]
       ELSE client' = [client EXCEPT !.pc = "thrown", !.errors = Append(@, error)]
    /\ UNCHANGED <<appVars, probe>>

\* the catch block: wait and retry, or throw
requestFails(error) ==
    /\ client.pc = "request"
    /\ IF (isRateLimit(error) \/ isServerBusy(error)) /\ client.retries > 0
       THEN client' = [client EXCEPT !.pc = "sleep",
                                     !.waits = Append(@, waitTime(client.retries)),
                                     !.errors = Append(@, error)]
       ELSE client' = [client EXCEPT !.pc = "thrown", !.errors = Append(@, error)]
    /\ UNCHANGED <<appVars, probe>>

\* the sleep is over: retries--; continue; the loop guard is evaluated again
sleepOver ==
    /\ client.pc = "sleep"
    /\ client' = [client EXCEPT !.retries = @ - 1,
                                !.pc = IF client.retries - 1 >= 0 THEN "request"
                                                                  ELSE "returned",
                                !.result = IF client.retries - 1 >= 0 THEN @
                                                                      ELSE "empty"]
    /\ UNCHANGED <<appVars, probe>>

NextClient ==
    \/ clientCall
    \/ \E response \in ResponseKinds : requestSucceeds(response)
    \/ \E error \in ErrorKinds : requestFails(error)
    \/ sleepOver

SpecClient == Init /\ [][NextClient]_vars

-----------------------------------------------------------------------------
(* sanitizePart on its own (App.tsx lines 40-50) *)

\* labels up to this length are sanitized
MaxLabelLen == 3

\* a letter, the underscore, the dot, a character outside the class, an ideograph
LabelChars == {"a", "_", ".", "-", "U4E2D"}

StringsUpTo(chars, n) == UNION {[1..k -> chars] : k \in 0..n}

\* a label (the absent label is the empty one) and the second argument
InitSanitize ==
    /\ AppInit
    /\ client = NoClient
    /\ probe \in {[fn |-> "sanitizePart", str |-> str, allowDots |-> allowDots,
                   values |-> <<>>] :
                      str \in StringsUpTo(LabelChars, MaxLabelLen), allowDots \in BOOLEAN}

\* sanitizePart(str, allowDots), and then sanitizePart of what it returned
applySanitizePart ==
    /\ probe.fn = "sanitizePart"
    /\ Len(probe.values) < 2
    /\ LET arg == IF probe.values = <<>> THEN probe.str
                  ELSE probe.values[Len(probe.values)]
       IN  probe' = [probe EXCEPT !.values = Append(@, sanitizePart(arg, probe.allowDots))]
    /\ UNCHANGED <<appVars, client>>

NextSanitize == applySanitizePart

SpecSanitize == InitSanitize /\ [][NextSanitize]_vars

-----------------------------------------------------------------------------
(* The unique-name loop on its own (App.tsx lines 119-138) *)

\* the registry holds the base and its suffixed forms up to this counter
MaxSuffix == 3

\* original file names: with an extension, and without one
ResolverNames == { <<"i", ".", "p", "n", "g">>, <<"i">> }

\* labels <<english, chinese, domain>>: plain, upper case, a domain with a dot
ResolverLabels ==
    { <<<<"a">>, <<"b">>, <<"c">>>>,
      <<<<"A">>, <<"b">>, <<"c">>>>,
      <<<<"a">>, <<"b">>, <<"g", ".", "c">>>> }

\* pData.ext of a file with this original name
extOfName(name) == chunkDataOf(<<NewRecord(1, name)>>)[1].ext

\* registries: lower-cased names among the base and its suffixed forms
RegistriesOf(baseFinalName) ==
    SUBSET ({toLowerCase(baseFinalName)}
               \cup {toLowerCase(suffixedName(baseFinalName, k)) : k \in 1..MaxSuffix})

InitResolver ==
    /\ AppInit
    /\ client = NoClient
    /\ \E n \in ResolverNames, res \in ResolverLabels :
          LET baseFinalName == baseFinalNameOf(res, extOfName(n))
          IN  \E u \in RegistriesOf(baseFinalName) :
                  probe = [fn |-> "resolveName", originalName |-> n, res |-> res,
                           baseFinalName |-> baseFinalName, usedNames |-> u,
                           applied |-> FALSE, name |-> Null, used |-> {}]

\* lines 128-138 for one record
applyResolveName ==
    /\ probe.fn = "resolveName"
    /\ ~probe.applied
    /\ LET r == resolveName(probe.baseFinalName, probe.usedNames)
       IN  probe' = [probe EXCEPT !.applied = TRUE, !.name = r.name, !.used = r.used]
    /\ UNCHANGED <<appVars, client>>

NextResolver == applyResolveName

SpecResolver == InitResolver /\ [][NextResolver]_vars

-----------------------------------------------------------------------------
(* One merge on its own (App.tsx lines 110-152) *)

\* records in the chunk that is merged
MaxMerge == 3

\* icon1.png, icon2.png, ...
IconName(k) == <<"i", "c", "o", "n">> \o NatToString(k) \o <<".", "p", "n", "g">>

Home == <<"H", "o", "m", "e">>
Search == <<"S", "e", "a", "r", "c", "h">>

\* labels <<english, chinese, domain>> the oracle answers with
MergeLabels ==
    { <<Home, <<"U9996", "U9875">>, <<"a", "p", "p">>>>,
      <<toLowerCase(Home), <<"U9996", "U9875">>, <<"a", "p", "p">>>>,
      <<Home, <<"U9996", "U9875">>, <<"a", "p", "p", "_", "1">>>>,
      <<Search, <<"U641C", "U7D22">>, <<"w", "e", "b">>>> }

\* the chunk as the merge finds it: its records are Processing
ProcessingQueue(n) ==
    [k \in 1..n |-> [NewRecord(k, IconName(k)) EXCEPT !.status = "processing"]]

\* usedNames at the start of the cycle: empty, or holding the name an
\* earlier cycle gave to a record with the first labels
MergeRegistries ==
    SUBSET {toLowerCase(Home \o <<"-", "-", "U9996", "U9875", "-", "-", "a", "p", "p",
                                  ".", "p", "n", "g">>)}

\* a chunk, the results of its call, and usedNames
InitMerge ==
    /\ AppInit
    /\ client = NoClient
    /\ \E n \in 1..MaxMerge :
          \E results \in [1..n -> MergeLabels \cup {NoResult}] :
              \E u \in MergeRegistries :
                  probe = [fn |-> "merge", prev |-> ProcessingQueue(n),
                           results |-> results, usedNames |-> u,
                           applied |-> FALSE, out |-> <<>>]

\* the setFiles updater of lines 110-152
applyMerge ==
    /\ probe.fn = "merge"
    /\ ~probe.applied
    /\ probe' = [probe EXCEPT
                    !.applied = TRUE,
                    !.out = MergeFrom(probe.prev, chunkDataOf(probe.prev), probe.results,
                                      probe.usedNames).out]
    /\ UNCHANGED <<appVars, client>>

NextMerge == applyMerge

SpecMerge == InitMerge /\ [][NextMerge]_vars

TypeOK ==
    /\ isProcessing \in BOOLEAN
    /\ isRequestInFlight \in BOOLEAN
    /\ effectDue \in BOOLEAN
    /\ nextId \in 0..MaxFiles
    /\ batchTick \in 0..MaxCycles
    /\ \A k \in DOMAIN files :
          files[k].status \in {"pending", "processing", "completed", "error"}

-----------------------------------------------------------------------------
(* Properties *)

StatusAt(fs, st) == {k \in DOMAIN fs : fs[k].status = st}

\* C1: no two Completed records have newName values that are equal under
\* case-insensitive comparison, in every reachable state.
C1_DedupInvariant ==
    \A i, j \in StatusAt(files, "completed") :
        i # j => toLowerCase(files[i].newName) # toLowerCase(files[j].newName)

\* C2: at most one oracle call is in flight (awaiting analyzeFilenamesBatch)
\* at any time.
C2_OneCallInFlight ==
    Cardinality({c \in DOMAIN calls : calls[c].pc = "await"}) <= 1

\* C3: when the outcome of an oracle call arrives after a stop, the merge
\* (success or failure) leaves the status and newName of every record that is
\* not Processing at merge time as they are.
C3_LateMergeTouchesOnlyProcessing ==
    [][ \A c \in DOMAIN calls :
          ( /\ lastOp' \in {"success", "failure"}
            /\ calls[c].pc = "await" /\ calls[c].stopped
            /\ calls'[c].pc = "cooldown" )
          => \A k \in DOMAIN files :
                files[k].status # "processing"
                => /\ files'[k].status = files[k].status
                   /\ files'[k].newName = files[k].newName ]_vars

\* C4: stop yields isProcessing false and no Processing record; every record
\* that was Processing becomes Pending and every other record is unchanged.
C4_StopRevertsProcessing ==
    [][ lastOp' = "stop"
        => /\ ~isProcessing'
           /\ DOMAIN files' = DOMAIN files
           /\ StatusAt(files', "processing") = {}
           /\ \A k \in DOMAIN files :
                 IF files[k].status = "processing"
                 THEN files'[k] = [files[k] EXCEPT !.status = "pending"]
                 ELSE files'[k] = files[k] ]_vars

\* C4 witness: stop has just reverted the chunk of an awaited call to Pending
\* while a Completed and an Error record are in the queue.
C4_Witness ==
    /\ lastOp = "stop"
    /\ StatusAt(files, "completed") # {}
    /\ StatusAt(files, "error") # {}
    /\ \E c \in DOMAIN calls : \E k \in StatusAt(files, "pending") :
          calls[c].pc = "await" /\ files[k].id \in Ids(calls[c].chunkData)

\* C5: newName is set if and only if the status is Completed, and metadata is
\* set only when newName is set, for every record in every reachable state.
C5_NewNameIffCompleted ==
    \A k \in DOMAIN files :
        /\ (files[k].newName # Null) <=> (files[k].status = "completed")
        /\ (files[k].metadata # NoMetadata) => (files[k].newName # Null)

\* C6: a Completed record stays Completed with the same newName for as long
\* as it is in the queue.
C6_CompletedIsFinal ==
    [][ \A k \in StatusAt(files, "completed") : \A j \in DOMAIN files' :
          files'[j].id = files[k].id
          => /\ files'[j].status = "completed"
             /\ files'[j].newName = files[k].newName ]_vars

\* C7: a record in Error stays in Error for as long as it is in the queue.
C7_ErrorIsTerminal ==
    [][ \A k \in StatusAt(files, "error") : \A j \in DOMAIN files' :
          files'[j].id = files[k].id => files'[j].status = "error" ]_vars

\* C8: every oracle call receives at most CHUNK_SIZE items, each for a
\* distinct record that was Pending when the cycle started.
C8_ChunkBound ==
    [][ lastOp' = "cycleStart"
        => LET items == itemsToSend(calls'[Len(calls')].chunkData)
           IN  /\ Len(items) <= CHUNK_SIZE
               /\ \A a, b \in DOMAIN items : a # b => items[a].i # items[b].i
               /\ \A a \in DOMAIN items : \E k \in StatusAt(files, "pending") :
                     files[k].id = items[a].i ]_vars

\* C8 witness: a cycle has started with a full chunk and a Pending record
\* left over.
C8_Witness ==
    /\ lastOp = "cycleStart"
    /\ Len(calls[Len(calls)].chunkData) = CHUNK_SIZE
    /\ StatusAt(files, "pending") # {}

\* C9: the chunk of a cycle is the first min(CHUNK_SIZE, number of Pending)
\* Pending records in queue order, in that order.
C9_FifoChunk ==
    [][ lastOp' = "cycleStart"
        => LET cd == calls'[Len(calls')].chunkData
               pend == StatusAt(files, "pending")
               n == IF Cardinality(pend) < CHUNK_SIZE THEN Cardinality(pend) ELSE CHUNK_SIZE
           IN  /\ Len(cd) = n
               /\ \A a \in 1..n : \E k \in pend :
                     /\ files[k].id = cd[a].id
                     /\ Cardinality({j \in pend : j < k}) = a - 1 ]_vars

\* C9 witness: a cycle has started whose chunk is the two oldest of three
\* Pending records, the queue position of each chunk record being its
\* position in the chunk.
C9_Witness ==
    /\ lastOp = "cycleStart"
    /\ Len(files) = 3
    /\ LET cd == calls[Len(calls)].chunkData
       IN  /\ Len(cd) = 2
           /\ files[1].id = cd[1].id /\ files[2].id = cd[2].id
           /\ files[1].status = "processing" /\ files[2].status = "processing"
           /\ files[3].status = "pending"

\* C10: a cycle check with isProcessing set, the guard clear, no Pending and
\* at least one Processing record turns every Processing record into Error,
\* does not invoke the oracle and leaves isProcessing set; a check clears
\* isProcessing only when it finds neither Pending nor Processing records.
C10_ZombieHealing ==
    [][ /\ ( /\ effectDue /\ isProcessing /\ ~isRequestInFlight
              /\ StatusAt(files, "pending") = {}
              /\ StatusAt(files, "processing") # {} )
            => /\ DOMAIN files' = DOMAIN files
               /\ \A k \in DOMAIN files :
                     IF files[k].status = "processing"
                     THEN files'[k] = [files[k] EXCEPT !.status = "error"]
                     ELSE files'[k] = files[k]
               /\ calls' = calls
               /\ isProcessing'
        /\ (effectDue /\ isProcessing /\ ~isProcessing')
            => /\ StatusAt(files, "pending") = {}
               /\ StatusAt(files, "processing") = {} ]_vars

\* C10 witness: the zombie branch of the check has just run and left a record
\* in Error.
C10_Witness ==
    /\ lastOp = "zombie"
    /\ isProcessing
    /\ StatusAt(files, "error") # {}
    /\ StatusAt(files, "processing") = {}

\* the run is over: isProcessing is clear and every record is Completed or
\* Error (completedCount equals the total)
RunOver == ~isProcessing /\ completedCount(files) = Len(files)

C12_FailureMarksChunkError ==
    [][ \A c \in DOMAIN calls :
          ( /\ lastOp' = "failure"
            /\ calls[c].pc = "await" /\ ~calls[c].stopped
            /\ calls'[c].pc = "cooldown" )
          => /\ DOMAIN files' = DOMAIN files
             /\ \A k \in DOMAIN files :
                   IF files[k].id \in Ids(calls[c].chunkData)
                   THEN files'[k].status = "error" /\ files'[k].newName = Null
                   ELSE files'[k] = files[k] ]_vars

\* the answer `results` with the entry of id y taken out
WithoutEntry(results, y) == [results EXCEPT ![y] = NoResult]

\* baseFinalName, or baseFinalName with a collision suffix
IsNameOfBase(name, baseFinalName) ==
    \/ name = baseFinalName
    \/ \E n \in 1..(MaxMerge + 1) : name = suffixedName(baseFinalName, n)

\* the merge of the chunk of the probe with the entry of id y taken out
MergeWithout(y) ==
    MergeFrom(probe.prev, chunkDataOf(probe.prev), WithoutEntry(probe.results, y),
              probe.usedNames).out

\* C13 as stated: on a successful call a chunk record becomes Error exactly
\* when the answer has no entry with its id and Completed exactly when it has
\* one, and taking the entry of one record out of the answer changes neither
\* the status nor the assigned name of the other records that have an entry.
C13_SiblingsUnaffected ==
    probe.fn = "merge" /\ probe.applied =>
        /\ \A k \in DOMAIN probe.prev :
              probe.out[k].status =
                 IF probe.results[probe.prev[k].id] = NoResult THEN "error"
                                                               ELSE "completed"
        /\ \A y \in Ids(probe.prev) :
              \A alt \in {MergeWithout(y)} :
                  \A k \in DOMAIN probe.prev :
                      probe.prev[k].id # y /\ probe.results[probe.prev[k].id] # NoResult
                      => /\ alt[k].status = probe.out[k].status
                         /\ alt[k].newName = probe.out[k].newName

\* C13 amended: the status of a chunk record follows from its own entry alone,
\* and taking the entry of another record out of the answer changes neither
\* the status nor the labels of a record with an entry; its assigned name
\* stays its own base name, with or without a collision suffix.
C13_SiblingsKeepStatusAndBase ==
    probe.fn = "merge" /\ probe.applied =>
        /\ \A k \in DOMAIN probe.prev :
              probe.out[k].status =
                 IF probe.results[probe.prev[k].id] = NoResult THEN "error"
                                                               ELSE "completed"
        /\ \A y \in Ids(probe.prev) :
              \A alt \in {MergeWithout(y)} :
                  \A k \in DOMAIN probe.prev :
                      probe.prev[k].id # y /\ probe.results[probe.prev[k].id] # NoResult
                      => LET base == baseFinalNameOf(
                                        probe.results[probe.prev[k].id],
                                        extOf(chunkDataOf(probe.prev), probe.prev[k].id))
                         IN  /\ alt[k].status = probe.out[k].status
                             /\ alt[k].metadata = probe.out[k].metadata
                             /\ IsNameOfBase(alt[k].newName, base)
                             /\ IsNameOfBase(probe.out[k].newName, base)

\* C13 witness: a chunk of two or more records has been merged with an answer
\* that has no entry for record 1 and has one for record 2.
C13_Witness ==
    /\ probe.fn = "merge" /\ probe.applied
    /\ Len(probe.prev) >= 2
    /\ probe.results[1] = NoResult /\ probe.results[2] # NoResult
    /\ probe.out[1].status = "error" /\ probe.out[1].newName = Null
    /\ probe.out[2].status = "completed"


\* C14: within one client call the client waits at most three times, 3 s,
\* 6 s and 9 s in that order, one wait for each transient failure it retries;
\* when the fourth attempt fails as well the failure is thrown, and a
\* failure that is not transient is thrown at once, with no wait after it.
C14_BoundedRetries ==
    client.pc # "idle" =>
        /\ Len(client.waits) <= 3
        /\ \A k \in DOMAIN client.waits : client.waits[k] = 3000 * k
        /\ \A k \in DOMAIN client.errors :
              client.errors[k] = "other" =>
                  /\ k = Len(client.errors)
                  /\ client.pc = "thrown"
                  /\ Len(client.waits) = k - 1
        /\ Len(client.errors) <= 4
        /\ Len(client.errors) = 4 => client.pc = "thrown"
        /\ client.pc = "thrown" /\ client.errors[Len(client.errors)] # "other" =>
              /\ Len(client.errors) = 4
              /\ client.waits = <<3000, 6000, 9000>>

\* every attempt failed with a transient failure and the failure was thrown
C14_Witness ==
    /\ client.pc = "thrown"
    /\ Len(client.errors) = 4
    /\ \A k \in DOMAIN client.errors : client.errors[k] # "other"
    /\ client.waits = <<3000, 6000, 9000>>

C16_SanitizeIdempotent ==
    probe.fn = "sanitizePart" =>
        /\ Len(probe.values) = 2 => probe.values[2] = probe.values[1]
        /\ Len(probe.values) >= 1 /\ probe.str = <<>> => probe.values[1] = Unknown

\* the characters a token may hold
IsTokenChar(c, allowDots) ==
    \/ c \in UpperSet \cup LowerSet \cup DigitSet \cup CJKChars
    \/ c = "_"
    \/ (allowDots /\ c = ".")

\* C17: the token sanitizePart returns is not empty, holds only letters,
\* digits, ideographs, underscores and (with allowDots) dots, has no two
\* underscores in a row, and neither starts nor ends with an underscore nor
\* (with allowDots) with a dot.
C17_SanitizedShape ==
    probe.fn = "sanitizePart" /\ Len(probe.values) >= 1 =>
        LET t == probe.values[1]
        IN  /\ t # <<>>
            /\ \A i \in DOMAIN t : IsTokenChar(t[i], probe.allowDots)
            /\ \A i \in 1..(Len(t) - 1) : ~(t[i] = "_" /\ t[i + 1] = "_")
            /\ t[1] # "_" /\ t[Len(t)] # "_"
            /\ probe.allowDots => (t[1] # "." /\ t[Len(t)] # ".")

\* the name is not in the registry, compared case-insensitively
IsFree(name, usedNames) == toLowerCase(name) \notin usedNames

\* C18: the resolver returns the base when the base is not in the registry
\* (case-insensitively), otherwise the base with suffix _k for the smallest
\* k >= 1 whose suffixed name is not in the registry; the name returned is
\* never in the registry passed in; the registry afterwards is the old one
\* plus the name returned; registry {a--b--c.png} gives a--b--c_1.png and
\* with a--b--c_1.png added it gives a--b--c_2.png.
C18_ResolverCorrect ==
    probe.fn = "resolveName" /\ probe.applied =>
        LET base == probe.baseFinalName
            reg == probe.usedNames
            abc == <<"a","-","-","b","-","-","c">>
            png == <<".","p","n","g">>
        IN  /\ IsFree(base, reg) => probe.name = base
            /\ ~IsFree(base, reg) =>
                  \E k \in 1..(MaxSuffix + 1) :
                      /\ probe.name = suffixedName(base, k)
                      /\ \A j \in 1..(k - 1) : ~IsFree(suffixedName(base, j), reg)
            /\ IsFree(probe.name, reg)
            /\ probe.used = reg \cup {toLowerCase(probe.name)}
            /\ base = abc \o png /\ reg = {abc \o png} =>
                  probe.name = abc \o <<"_","1">> \o png
            /\ base = abc \o png /\ reg = {abc \o png, abc \o <<"_","1">> \o png} =>
                  probe.name = abc \o <<"_","2">> \o png

\* the base and its first suffixed form are taken: the second one is returned
C18_Witness ==
    /\ probe.fn = "resolveName" /\ probe.applied
    /\ probe.baseFinalName = <<"a","-","-","b","-","-","c",".","p","n","g">>
    /\ probe.usedNames = {<<"a","-","-","b","-","-","c",".","p","n","g">>,
                          <<"a","-","-","b","-","-","c","_","1",".","p","n","g">>}
    /\ probe.name = <<"a","-","-","b","-","-","c","_","2",".","p","n","g">>

\* C19: a collision suffix stands immediately before the extension of the
\* original file, and at the very end of the name when the original file has
\* no extension, whatever the domain token (a domain with dots included).
C19_SuffixBeforeOriginalExt ==
    probe.fn = "resolveName" /\ probe.applied /\ probe.name # probe.baseFinalName =>
        LET ext == extOfName(probe.originalName)
            originalExt == IF ext # <<>> THEN <<".">> \o ext ELSE <<>>
            stem == sanitizePart(probe.res[1], FALSE) \o <<"-", "-">>
                      \o sanitizePart(probe.res[2], FALSE) \o <<"-", "-">>
                      \o sanitizePart(probe.res[3], TRUE)
        IN  \E k \in 1..(MaxSuffix + 1) :
                probe.name = stem \o <<"_">> \o NatToString(k) \o originalExt

\* the base of the k-th record of the merged chunk
BaseAt(k) ==
    baseFinalNameOf(probe.results[probe.prev[k].id],
                    extOf(chunkDataOf(probe.prev), probe.prev[k].id))

\* the records of the merged chunk that have an entry in the results
Answered == {k \in DOMAIN probe.prev : probe.results[probe.prev[k].id] # NoResult}

\* the k-th record is the j-th record, in queue order, with its base
RankAt(k) == Cardinality({i \in Answered : i <= k /\ BaseAt(i) = BaseAt(k)})

\* the name of the j-th record with this base: base, then base_1, base_2, ...
JthName(base, j) == IF j = 1 THEN base ELSE suffixedName(base, j - 1)

\* the names a base can be given in this merge, lower-cased
FamilyOf(base) ==
    {toLowerCase(base)} \cup {toLowerCase(suffixedName(base, m)) : m \in 1..MaxMerge}

\* C20 as stated: with an empty registry the j-th record, in queue order,
\* whose labels yield the same base gets base for j = 1 and base_(j-1) for
\* j > 1.
C20_JthRecordGetsJthName ==
    probe.fn = "merge" /\ probe.applied /\ probe.usedNames = {} =>
        \A k \in Answered : probe.out[k].newName = JthName(BaseAt(k), RankAt(k))

\* C20, amended: each record gets the first of base, base_1, base_2, ... that
\* no earlier record of the merge was given (case-insensitively); this is
\* base for j = 1 and base_(j-1) for j > 1 when no different base of the
\* chunk shares a name, case-insensitively, with the base and its suffixed
\* forms; icon1.png, icon2.png, icon3.png with labels (Home, U9996 U9875,
\* app) twice and (Search, U641C U7D22, web) end as Home--..--app.png,
\* Home--..--app_1.png and Search--..--web.png.
C20_MergeOrder ==
    probe.fn = "merge" /\ probe.applied =>
        /\ \A k \in Answered :
              /\ probe.out[k].newName =
                    uniqueNameOf(BaseAt(k),
                                 probe.usedNames
                                    \cup {toLowerCase(probe.out[i].newName) :
                                             i \in {a \in Answered : a < k}})
              /\ (/\ probe.usedNames = {}
                  /\ \A i \in Answered :
                     BaseAt(i) # BaseAt(k) => FamilyOf(BaseAt(i)) \cap FamilyOf(BaseAt(k)) = {})
                 => probe.out[k].newName = JthName(BaseAt(k), RankAt(k))
        /\ LET home == <<Home, <<"U9996", "U9875">>, <<"a", "p", "p">>>>
               search == <<Search, <<"U641C", "U7D22">>, <<"w", "e", "b">>>>
               homeStem == Home \o <<"-", "-", "U9996", "U9875", "-", "-", "a", "p", "p">>
               png == <<".", "p", "n", "g">>
           IN  probe.results = <<home, home, search>> /\ probe.usedNames = {} =>
                  /\ probe.out[1].newName = homeStem \o png
                  /\ probe.out[2].newName = homeStem \o <<"_", "1">> \o png
                  /\ probe.out[3].newName =
                        Search \o <<"-", "-", "U641C", "U7D22", "-", "-", "w", "e", "b">> \o png

\* the three files of the example have been merged
C20_Witness ==
    /\ probe.fn = "merge" /\ probe.applied /\ probe.usedNames = {}
    /\ probe.results = << <<Home, <<"U9996", "U9875">>, <<"a", "p", "p">>>>,
                          <<Home, <<"U9996", "U9875">>, <<"a", "p", "p">>>>,
                          <<Search, <<"U641C", "U7D22">>, <<"w", "e", "b">>>> >>
    /\ \A k \in 1..3 : probe.out[k].status = "completed"
    /\ probe.out[2].newName # probe.out[1].newName

\* C21: a confirmed reset leaves the queue empty, isProcessing false and the
\* in-flight guard cleared, whatever the state it is pressed in; a reset whose
\* confirmation is declined leaves the queue, isProcessing and the guard as
\* they were.
C21_ResetFrame ==
    [][ /\ lastOp' = "reset" =>
              files' = <<>> /\ ~isProcessing' /\ ~isRequestInFlight'
        /\ lastOp' = "resetDeclined" =>
              /\ files' = files
              /\ isProcessing' = isProcessing
              /\ isRequestInFlight' = isRequestInFlight ]_vars

\* C21 witness: the reset was confirmed while a call stopped earlier is still
\* awaited, and the queue is empty
C21_Witness ==
    /\ lastOp = "reset"
    /\ files = <<>>
    /\ \E c \in DOMAIN calls : calls[c].pc = "await" /\ calls[c].stopped

\* the queue as its sequence of (id, originalName) pairs
QueueKeys(fs) == [k \in DOMAIN fs |-> <<fs[k].id, fs[k].originalName>>]

\* C22: the sequence of (id, originalName) pairs of the queue changes only by
\* an enqueue appending at its end, a delete removing one record, or a reset
\* clearing it; no other step (cycle start, merge of a success or a failure,
\* zombie healing, stop, start) adds, removes, reorders or renames a record.
C22_QueueKeysFrame ==
    [][ \/ QueueKeys(files') = QueueKeys(files)
        \/ /\ lastOp' = "enqueue"
           /\ Len(files') > Len(files)
           /\ SubSeq(QueueKeys(files'), 1, Len(files)) = QueueKeys(files)
        \/ /\ lastOp' = "delete"
           /\ \E i \in DOMAIN files : QueueKeys(files') = RemoveAt(QueueKeys(files), i)
        \/ /\ lastOp' = "reset"
           /\ files' = <<>> ]_vars

\* C22 witness: the first call has been answered after every record of the
\* queue, the records of its chunk included, was deleted: none is back
C22_Witness ==
    /\ lastOp = "success"
    /\ batchTick = 0 /\ Len(calls) = 1
    /\ isProcessing
    /\ nextId >= 1
    /\ files = <<>>

\* C23: no record is processed twice unless a stop put it back: a record
\* enters the chunk of a call only as Pending and is Processing once it has
\* entered, and a record that is not Pending becomes Pending only by a stop,
\* from Processing; so a record is in the chunk of a second call only after a
\* stop reverted it, and without a stop it is sent at most once.
C23_NoDoubleProcessing ==
    [][ /\ Len(calls') > Len(calls) =>
              \A id \in Ids(calls'[Len(calls')].chunkData) :
                  \E k \in DOMAIN files :
                      /\ files[k].id = id
                      /\ files[k].status = "pending"
                      /\ files'[k].status = "processing"
        /\ \A k \in DOMAIN files : \A j \in DOMAIN files' :
              /\ files[k].id = files'[j].id
              /\ files[k].status # "pending"
              /\ files'[j].status = "pending"
              => lastOp' = "stop" /\ files[k].status = "processing" ]_vars

\* C23 witness: record 1 is in the chunks of two calls, both awaited; the
\* first of them was stopped
C23_Witness ==
    /\ lastOp = "cycleStart"
    /\ Len(calls) = 2
    /\ calls[1].pc = "await" /\ calls[1].stopped
    /\ calls[2].pc = "await" /\ ~calls[2].stopped
    /\ 1 \in Ids(calls[1].chunkData) \cap Ids(calls[2].chunkData)

\* C24: zombie healing (the cycle check that finds no Pending record, or the
\* start of a cycle for the records outside its chunk) takes a record from
\* Processing to Error only if no call whose chunk holds the record is still
\* awaited.
C24_ZombieHasNoCallInFlight ==
    [][ lastOp' \in {"zombie", "cycleStart"} =>
          \A k \in DOMAIN files :
              files[k].status = "processing" /\ files'[k].status = "error"
              => ~\E c \in DOMAIN calls :
                     /\ calls[c].pc = "await"
                     /\ files[k].id \in Ids(calls[c].chunkData) ]_vars


=============================================================================
